---- MODULE Spec2Model ----
(***************************************************************************)
(* Model of the layer scene graph of skeditor                              *)
(* (src/lib/editor/view/layer-view.ts, class SkyBaseLayerView).            *)
(*                                                                         *)
(* A layer view owns a child list, a Transform, an optional scaledFrame,   *)
(* a tri-state layerPaint and two dirty flags.  layout() and render() are  *)
(* recursive tree traversals; they are modelled step by step with an       *)
(* explicit call stack, one action per statement group of the source.      *)
(* Coordinates are exact rationals <<num, den>> (the source uses IEEE      *)
(* doubles); rotations are multiples of 90 degrees so that the affine      *)
(* matrices stay rational.                                                 *)
(***************************************************************************)
EXTENDS Integers, Sequences, FiniteSets, TLC

VARIABLES
  nodes,           \* ids of the layer views that were constructed
  parent,          \* SkyBaseLayerView.parent   (NoNode for the root)
  children,        \* SkyBaseLayerView.children (paint order)
  model,           \* SkyBaseLayerView.model    (the document layer record)
  canQuickReject,  \* SkyBaseLayerView.canQuickReject
  requireLayerDropShadow,
  scaledFrame,     \* SkyBaseLayerView.scaledFrame (NoFrame = undefined)
  layoutDirty,     \* SkyBaseLayerView._layoutDirty
  transformDirty,  \* SkyBaseLayerView._transformDirty
  transform,       \* SkyBaseLayerView.transform
  layerUpdateId,   \* SkyBaseLayerView.layerUpdateId
  layerPaint,      \* SkyBaseLayerView.layerPaint
  renderFrameMemo, \* memo of the renderFrame getter (CacheGetter)
  skStack,         \* save stack of ctx.skCanvas
  skClip,          \* clip of ctx.skCanvas: the masks whose clip is in force
  callStack,       \* activation records of render / renderChildren / layout
  clipAt,          \* observation: skClip at the moment render() of a node began
  drawn,           \* observation: nodes whose _render ran in this pass
  lastRead,        \* observation: result of the last renderFrame read
  lastFound,       \* the findView query in progress: point, views visited, value returned
  thrown,          \* the view whose _render threw out of the root render(), if any
  offset,          \* ZoomController.offset
  preDx,           \* bindDragEvents: preDx
  preDy,           \* bindDragEvents: preDy
  startPoint,      \* bindGesture: startPoint
  lastScale,       \* bindGesture: lastScale
  bowser,          \* the platform flags of `bowser` (safari, windows)
  lastEvent,       \* observation: the DOM / drag event handled last
  calls,           \* observation: the listener calls the last handler made
  dragSum          \* observation: sum of the offsets delivered since dragStart

treeVars   == <<nodes, parent, children, model, canQuickReject, requireLayerDropShadow>>
layoutVars == <<scaledFrame, layoutDirty, transformDirty, transform, layerUpdateId>>
cacheVars  == <<renderFrameMemo, lastRead>>
canvasVars == <<skStack, skClip>>
renderVars == <<layerPaint, clipAt, drawn>>
zoomVars   == <<offset, preDx, preDy, startPoint, lastScale, bowser, lastEvent, calls, dragSum>>
editorVars == <<lastFound, thrown, zoomVars>>
vars == <<treeVars, layoutVars, cacheVars, canvasVars, renderVars, callStack, editorVars>>

(***************************************************************************)
(* Bounds of the explored inputs.                                          *)
(***************************************************************************)
MaxSiblings == 3      \* children of the root in the mask-chain runs
MaxRenderNodes == 3   \* views in the nested render runs

MasterSize == 4       \* width and height of the symbol master
MaxOrigin == 1        \* largest x / y of a scaled child
MaxSize == 2          \* largest width / height of a scaled child
ResizeSteps == 1      \* widths an instance is resized through, beyond the master's

MaxPoint == 4         \* largest coordinate of a hit-tested point

MaxWheelDelta == 21   \* largest |deltaY| of a wheel event
MaxPointer == 1       \* largest pointer coordinate of a wheel / gesture event
MaxOffset == 1        \* largest component of ZoomController.offset
MaxDrag == 2          \* largest cumulative dx / dy of a drag
MaxPinch == 2         \* largest scale of a pinch gesture

InitialLayerUpdateId == 100

NoNode == -1          \* `parent` of the view that has none
NoFrame == <<>>       \* an optional value is <<>> (undefined) or <<v>>
Root == 0             \* the view layout() and render() are called on
NotRendered == {NoNode}

(***************************************************************************)
(* Exact rational arithmetic: <<numerator, denominator>>, denominator > 0, *)
(* in lowest terms, so that equal numbers are equal values.                *)
(***************************************************************************)
Abs(i) == IF i < 0 THEN -i ELSE i

RECURSIVE Gcd(_, _)
Gcd(a, b) == IF b = 0 THEN a ELSE Gcd(b, a % b)

Norm(n, d) ==
  LET g == Gcd(Abs(n), Abs(d))
      s == IF d < 0 THEN -1 ELSE 1
  IN <<(s * n) \div g, (s * d) \div g>>

R(i) == <<i, 1>>
RAdd(p, q) == Norm(p[1] * q[2] + q[1] * p[2], p[2] * q[2])
RSub(p, q) == Norm(p[1] * q[2] - q[1] * p[2], p[2] * q[2])
RMul(p, q) == Norm(p[1] * q[1], p[2] * q[2])
RDiv(p, q) == Norm(p[1] * q[2], p[2] * q[1])
RHalf(p) == RDiv(p, R(2))
RLess(p, q) == p[1] * q[2] < q[1] * p[2]

\* a rectangle with rational coordinates
Rect(x, y, w, h) == [x |-> x, y |-> y, width |-> w, height |-> h]

\* the model's integer frame as a Rect
RectOf(f) == Rect(R(f.x), R(f.y), R(f.width), R(f.height))

(***************************************************************************)
(* Transform (../base): pivot, position, scale, rotation and the derived   *)
(* local and world matrices.  A matrix maps (x, y) to                      *)
(* (a x + c y + tx, b x + d y + ty).  rotation counts quarter turns.       *)
(***************************************************************************)
Matrix(a, b, c, d, tx, ty) == [a |-> a, b |-> b, c |-> c, d |-> d, tx |-> tx, ty |-> ty]

IDENTITY == Matrix(1, 0, 0, 1, R(0), R(0))

\* outer o inner: inner is applied first
Compose(outer, inner) ==
  Matrix(outer.a * inner.a + outer.c * inner.b,
         outer.b * inner.a + outer.d * inner.b,
         outer.a * inner.c + outer.c * inner.d,
         outer.b * inner.c + outer.d * inner.d,
         RAdd(RAdd(RMul(R(outer.a), inner.tx), RMul(R(outer.c), inner.ty)), outer.tx),
         RAdd(RAdd(RMul(R(outer.b), inner.tx), RMul(R(outer.d), inner.ty)), outer.ty))

Cos4(q) == <<1, 0, -1, 0>>[(q % 4) + 1]
Sin4(q) == <<0, 1, 0, -1>>[(q % 4) + 1]

\* new Transform()
NewTransform ==
  [pivot |-> <<R(0), R(0)>>, position |-> <<R(0), R(0)>>, scale |-> <<1, 1>>,
   rotation |-> 0, localTransform |-> IDENTITY, worldTransform |-> IDENTITY]

\* Transform.updateLocalTransform:
\* translate(position) o rotate(rotation) o scale(scale) o translate(-pivot)
updateLocalTransform(t) ==
  LET a == Cos4(t.rotation) * t.scale[1]
      b == Sin4(t.rotation) * t.scale[1]
      c == (-Sin4(t.rotation)) * t.scale[2]
      d == Cos4(t.rotation) * t.scale[2]
      tx == RSub(t.position[1], RAdd(RMul(R(a), t.pivot[1]), RMul(R(c), t.pivot[2])))
      ty == RSub(t.position[2], RAdd(RMul(R(b), t.pivot[1]), RMul(R(d), t.pivot[2])))
  IN [t EXCEPT !.localTransform = Matrix(a, b, c, d, tx, ty)]

\* Transform.updateTransform(parentTransform): world = parent.world o local
updateWorldTransform(t, parentWorld) ==
  [t EXCEPT !.worldTransform = Compose(parentWorld, t.localTransform)]

(***************************************************************************)
(* The document layer record (../model, consumed read-only).               *)
(***************************************************************************)
DefaultStyle ==
  [present |-> TRUE, hasContextSettings |-> TRUE, opacity |-> 100, blendMode |-> "Src",
   shadow |-> "absent", blur |-> "absent", radius |-> 0]

\* model.style is undefined
NoStyle == [DefaultStyle EXCEPT !.present = FALSE]

DefaultModel ==
  [class |-> "group",
   frame |-> [x |-> 0, y |-> 0, width |-> 4, height |-> 4],
   refFrame |-> [x |-> 0, y |-> 0, width |-> 4, height |-> 4],
   isVisible |-> TRUE, isLocked |-> FALSE,
   hasClippingMask |-> FALSE, shouldBreakMaskChain |-> FALSE,
   fixedWidth |-> FALSE, fixedHeight |-> FALSE,
   snapLeft |-> FALSE, snapRight |-> FALSE, snapTop |-> FALSE, snapBottom |-> FALSE,
   rotation |-> 0, isFlippedHorizontal |-> FALSE, isFlippedVertical |-> FALSE,
   style |-> NoStyle]

\* get visible()
visible(n) == model[n].isVisible

\* get interactive()
interactive(n) == visible(n) /\ ~model[n].isLocked

\* get isMask()
isMask(n) == model[n].hasClippingMask

\* get shouldBreakMaskChain()
shouldBreakMaskChain(n) == model[n].shouldBreakMaskChain

(***************************************************************************)
(* Call stack helpers.                                                     *)
(***************************************************************************)
Top == callStack[Len(callStack)]

Running(fn, pc) == Len(callStack) > 0 /\ Top.fn = fn /\ Top.pc = pc

Pop == SubSeq(callStack, 1, Len(callStack) - 1)

SetTop(f) == [callStack EXCEPT ![Len(callStack)] = f]

Frame(fn, self, pc) ==
  [fn |-> fn, self |-> self, pc |-> pc, i |-> 1, isMasking |-> FALSE,
   shouldRender |-> FALSE, base |-> Len(skStack)]

Idle == Len(callStack) = 0

(***************************************************************************)
(* Frames.                                                                 *)
(***************************************************************************)
\* get frame(): this.scaledFrame || this.model.frame, under the scaledFrame
\* assignment sf
frameOf(sf, n) == IF sf[n] # NoFrame THEN sf[n][1] ELSE RectOf(model[n].frame)

frame(n) == frameOf(scaledFrame, n)

\* get intrinsicFrame(): the frame written in the model; for a symbol instance
\* the frame of the master it refers to
intrinsicFrame(n) ==
  RectOf(IF model[n].class = "symbolInstance" THEN model[n].refFrame ELSE model[n].frame)

\* get isFrameScaled()
isFrameScaledOf(sf, n) ==
  \/ intrinsicFrame(n).width # frameOf(sf, n).width
  \/ intrinsicFrame(n).height # frameOf(sf, n).height

isFrameScaled(n) == isFrameScaledOf(scaledFrame, n)

(***************************************************************************)
(* Derived geometry: renderFrame, memoized on layerUpdateId.               *)
(***************************************************************************)
\* Rect.onlySize
onlySize(r) == Rect(R(0), R(0), r.width, r.height)

\* model.inflateFrame: the frame grown by the extent of the layer's effects
inflateFrame(n, r) ==
  LET pad == R(IF model[n].style.present THEN model[n].style.radius ELSE 0)
  IN Rect(RSub(r.x, pad), RSub(r.y, pad),
          RAdd(r.width, RAdd(pad, pad)), RAdd(r.height, RAdd(pad, pad)))

\* the body of the renderFrame getter
computeRenderFrame(n) == inflateFrame(n, onlySize(frame(n)))

\* @CacheGetter(ins => ins.layerUpdateId): the memo is reused while the
\* generation it was computed at is the current one
memoHit(n) == renderFrameMemo[n] # <<>> /\ renderFrameMemo[n][1].id = layerUpdateId[n]

\* get renderFrame(): the value returned
renderFrame(n) == IF memoHit(n) THEN renderFrameMemo[n][1].value ELSE computeRenderFrame(n)

\* get renderFrame(): the memo it leaves
memoAfterRead(n) ==
  [renderFrameMemo EXCEPT ![n] = <<[id |-> layerUpdateId[n], value |-> renderFrame(n)]>>]

\* some caller reads view.renderFrame between two passes
ReadRenderFrame ==
  /\ Idle
  /\ \E n \in nodes :
       /\ lastRead' = <<[view |-> n, value |-> renderFrame(n)]>>
       /\ renderFrameMemo' = memoAfterRead(n)
  /\ UNCHANGED <<treeVars, layoutVars, canvasVars, renderVars, callStack, editorVars>>

(***************************************************************************)
(* Layer paint.                                                            *)
(***************************************************************************)
Paint(alpha, blend, filter) ==
  [state |-> "paint", alpha |-> alpha, blend |-> blend, filter |-> filter]

Undefined == [Paint(100, "SrcOver", "none") EXCEPT !.state = "undefined"]
Null == [Paint(100, "SrcOver", "none") EXCEPT !.state = "null"]

\* style.blur: absent, present but not enabled, or enabled with its type
BlurKinds == {"absent", "disabled", "Gaussian", "Motion", "Zoom", "Background"}

\* a switch that builds a blur filter for every enabled blur
blurFilterOfAnyKind(blur) == IF blur \in {"absent", "disabled"} THEN "none" ELSE "Blur"

\* if (style.blur?.isEnabled) switch (type): the image filter, if any
blurFilterOf(blur) == IF blur = "Gaussian" THEN "Blur" ELSE "none"

\* buildLayerPaint: the value assigned to this.layerPaint
buildLayerPaint(n) ==
  LET style == model[n].style IN
  IF ~style.present THEN Null
  ELSE
    LET alphaSet == style.hasContextSettings /\ style.opacity # 100
        blendSet == style.hasContextSettings /\ style.blendMode # "Src"
        shadowSet == requireLayerDropShadow[n] /\ style.shadow = "enabled"
        blurFilter == blurFilterOf(style.blur)
        modified == alphaSet \/ blendSet \/ shadowSet \/ blurFilter # "none"
    IN IF modified
       THEN Paint(IF alphaSet THEN style.opacity ELSE 100,
                  IF blendSet THEN style.blendMode ELSE "SrcOver",
                  IF blurFilter # "none" THEN blurFilter
                  ELSE IF shadowSet THEN "DropShadow" ELSE "none")
       ELSE Null

\* truthiness test `if (this.layerPaint)`
hasLayerPaint(p) == p.state = "paint"

(***************************************************************************)
(* The drawing surface: skCanvas.save / saveLayer / restore.               *)
(* An entry of skStack remembers the clip to return to, who pushed it and  *)
(* by which call.  restore() on an empty stack is a no-op, as in Skia.     *)
(***************************************************************************)
skSave(owner, kind) == Append(skStack, [clip |-> skClip, owner |-> owner, kind |-> kind])

skRestoreStack == IF Len(skStack) = 0 THEN skStack ELSE SubSeq(skStack, 1, Len(skStack) - 1)

skRestoreClip == IF Len(skStack) = 0 THEN skClip ELSE skStack[Len(skStack)].clip

(***************************************************************************)
(* render()                                                                *)
(***************************************************************************)
\* shouldRender = !this.canQuickReject || !reject
shouldRenderOf(n, reject) == ~canQuickReject[n] \/ ~reject

\* a guard of the second restore that forgets shouldRender
needsSecondRestoreIgnoringReject(n, shouldRender) == hasLayerPaint(layerPaint[n])

\* the guard of the second restore: this.layerPaint && shouldRender
needsSecondRestore(n, shouldRender) == hasLayerPaint(layerPaint[n]) /\ shouldRender

\* the frame starts a pass: root.render() is called by the frame loop
RenderStart ==
  /\ Idle
  /\ callStack' = <<Frame("render", Root, "enter")>>
  /\ clipAt' = [n \in nodes |-> NotRendered]
  /\ drawn' = {}
  /\ UNCHANGED <<treeVars, layoutVars, cacheVars, canvasVars, layerPaint, editorVars>>

\* skCanvas.save(); applyTransform(); quickReject; shouldRender
RenderEnter ==
  /\ Running("render", "enter")
  /\ \E reject \in BOOLEAN :
       LET n == Top.self
           sr == shouldRenderOf(n, reject)
       IN /\ skStack' = skSave(n, "save")
          /\ clipAt' = [clipAt EXCEPT ![n] = skClip]
          /\ lastRead' = <<[view |-> n, value |-> renderFrame(n)]>>
          /\ renderFrameMemo' = memoAfterRead(n)
          /\ callStack' = SetTop([Top EXCEPT !.shouldRender = sr,
                                            !.pc = IF sr THEN "style" ELSE "restore"])
  /\ UNCHANGED <<treeVars, layoutVars, skClip, layerPaint, drawn, editorVars>>

\* an applyLayerStyle that never builds the paint
unresolvedLayerPaint(n) == layerPaint[n]

\* if (this.layerPaint === undefined) this.buildLayerPaint()
resolvedLayerPaint(n) ==
  IF layerPaint[n].state = "undefined" THEN buildLayerPaint(n) ELSE layerPaint[n]

\* applyLayerStyle()
applyLayerStyle ==
  /\ Running("render", "style")
  /\ LET n == Top.self
         lp == resolvedLayerPaint(n)
     IN /\ layerPaint' = [layerPaint EXCEPT ![n] = lp]
        /\ skStack' = IF hasLayerPaint(lp) THEN skSave(n, "saveLayer") ELSE skStack
        /\ callStack' = SetTop([Top EXCEPT !.pc = "draw"])
  /\ UNCHANGED <<treeVars, layoutVars, cacheVars, skClip, clipAt, drawn, editorVars>>

\* this._render(): a view with children draws them through renderChildren,
\* a leaf draws itself without touching the save stack
RenderDraw ==
  /\ Running("render", "draw")
  /\ LET n == Top.self
         back == SetTop([Top EXCEPT !.pc = "restore"])
     IN /\ drawn' = drawn \cup {n}
        /\ callStack' = IF children[n] # <<>>
                        THEN Append(back, Frame("renderChildren", n, "loop"))
                        ELSE back
  /\ UNCHANGED <<treeVars, layoutVars, cacheVars, canvasVars, layerPaint, clipAt, editorVars>>

\* this._render() throws, in this view or in a descendant drawn by it: no
\* frame of render() or renderChildren() has a try block, so the exception
\* leaves root.render() and no restore() runs.  One failure is followed.
RenderDrawThrows ==
  /\ Running("render", "draw")
  /\ thrown = <<>>
  /\ thrown' = <<Top.self>>
  /\ callStack' = <<>>
  /\ UNCHANGED <<treeVars, layoutVars, cacheVars, canvasVars, renderVars, lastFound, zoomVars>>

\* skCanvas.restore()
RenderRestore ==
  /\ Running("render", "restore")
  /\ skStack' = skRestoreStack
  /\ skClip' = skRestoreClip
  /\ callStack' = SetTop([Top EXCEPT !.pc = "restore2"])
  /\ UNCHANGED <<treeVars, layoutVars, cacheVars, renderVars, editorVars>>

\* if (this.layerPaint && shouldRender) skCanvas.restore()
RenderRestoreLayer ==
  /\ Running("render", "restore2")
  /\ LET again == needsSecondRestore(Top.self, Top.shouldRender)
     IN /\ skStack' = IF again THEN skRestoreStack ELSE skStack
        /\ skClip' = IF again THEN skRestoreClip ELSE skClip
  /\ callStack' = SetTop([Top EXCEPT !.pc = "ret"])
  /\ UNCHANGED <<treeVars, layoutVars, cacheVars, renderVars, editorVars>>

\* return from render()
RenderReturn ==
  /\ Running("render", "ret")
  /\ callStack' = Pop
  /\ UNCHANGED <<treeVars, layoutVars, cacheVars, canvasVars, renderVars, editorVars>>

(***************************************************************************)
(* renderChildren()                                                        *)
(***************************************************************************)
\* a close condition that forgets shouldBreakMaskChain
closesMaskOnMaskOnly(c, isMasking) == isMask(c) /\ isMasking

\* (childView.isMask || childView.shouldBreakMaskChain) && isMasking
closesMask(c, isMasking) == (isMask(c) \/ shouldBreakMaskChain(c)) /\ isMasking

\* loop head and the first if of the body
ChildrenLoop ==
  /\ Running("renderChildren", "loop")
  /\ LET p == Top.self
         i == Top.i
     IN IF i > Len(children[p])
        THEN /\ callStack' = SetTop([Top EXCEPT !.pc = "end"])
             /\ UNCHANGED canvasVars
        ELSE LET c == children[p][i]
                 close == closesMask(c, Top.isMasking)
             IN /\ skStack' = IF close THEN skRestoreStack ELSE skStack
                /\ skClip' = IF close THEN skRestoreClip ELSE skClip
                /\ callStack' = SetTop([Top EXCEPT !.pc = "child",
                                        !.isMasking = IF close THEN FALSE ELSE @])
  /\ UNCHANGED <<treeVars, layoutVars, cacheVars, renderVars, editorVars>>

\* if (childView.visible) childView.render()
ChildrenRenderChild ==
  /\ Running("renderChildren", "child")
  /\ LET c == children[Top.self][Top.i]
         back == SetTop([Top EXCEPT !.pc = "mask"])
     IN callStack' = IF visible(c) THEN Append(back, Frame("render", c, "enter")) ELSE back
  /\ UNCHANGED <<treeVars, layoutVars, cacheVars, canvasVars, renderVars, editorVars>>

\* _tryClip() of SkyBaseLayerView: empty, the clip stays as it is
_tryClip(c) == skClip

\* the layer classes whose view overrides _tryClip (shape views clip to
\* their outline)
ClippingClasses == {"shapeLike"}

\* _tryClip() of such a view: the view's outline joins the clip
clipToOutline(c) == skClip \cup {c}

\* tryClip(): nothing unless the view is a mask; concat(mat), this._tryClip()
\* as the view's class defines it, concat(invert(mat))
tryClip(c) ==
  IF ~isMask(c) THEN skClip
  ELSE IF model[c].class \in ClippingClasses THEN clipToOutline(c)
  ELSE _tryClip(c)

\* if (childView.isMask) { save(); tryClip(); isMasking = true }  and i++
ChildrenMask ==
  /\ Running("renderChildren", "mask")
  /\ LET c == children[Top.self][Top.i]
     IN IF isMask(c)
        THEN /\ skStack' = skSave(Top.self, "mask")
             /\ skClip' = tryClip(c)
             /\ callStack' = SetTop([Top EXCEPT !.pc = "loop", !.i = @ + 1, !.isMasking = TRUE])
        ELSE /\ UNCHANGED canvasVars
             /\ callStack' = SetTop([Top EXCEPT !.pc = "loop", !.i = @ + 1])
  /\ UNCHANGED <<treeVars, layoutVars, cacheVars, renderVars, editorVars>>

\* if (isMasking) skCanvas.restore()
ChildrenEnd ==
  /\ Running("renderChildren", "end")
  /\ skStack' = IF Top.isMasking THEN skRestoreStack ELSE skStack
  /\ skClip' = IF Top.isMasking THEN skRestoreClip ELSE skClip
  /\ callStack' = SetTop([Top EXCEPT !.pc = "ret"])
  /\ UNCHANGED <<treeVars, layoutVars, cacheVars, renderVars, editorVars>>

\* return from renderChildren()
ChildrenReturn ==
  /\ Running("renderChildren", "ret")
  /\ callStack' = Pop
  /\ UNCHANGED <<treeVars, layoutVars, cacheVars, canvasVars, renderVars, editorVars>>

(***************************************************************************)
(* Instance scaling.                                                       *)
(***************************************************************************)
\* a scaleX that never looks at the snap flags
scaleXOfProportional(m, instanceFrame, masterFrame, curFrame) ==
  IF m.fixedWidth THEN R(1) ELSE RDiv(instanceFrame.width, masterFrame.width)

\* a scaleX whose trailing-snap branch forgets the fixedWidth test
scaleXOfIgnoringFixed(m, instanceFrame, masterFrame, curFrame) ==
  LET instanceScaleX == RDiv(instanceFrame.width, masterFrame.width)
      oldRight == RSub(RSub(masterFrame.width, curFrame.width), curFrame.x)
  IN IF m.snapLeft /\ m.snapRight
     THEN RDiv(RSub(instanceFrame.width, RSub(masterFrame.width, curFrame.width)),
               curFrame.width)
     ELSE IF m.snapRight
     THEN RDiv(RSub(RMul(masterFrame.width, instanceScaleX), oldRight),
               RSub(masterFrame.width, oldRight))
     ELSE IF m.snapLeft /\ ~m.fixedWidth
     THEN RDiv(RSub(RMul(masterFrame.width, instanceScaleX), curFrame.x),
               RSub(masterFrame.width, curFrame.x))
     ELSE IF m.fixedWidth THEN R(1) ELSE instanceScaleX

\* calcInstanceChildScale: scaleX
scaleXOf(m, instanceFrame, masterFrame, curFrame) ==
  LET instanceScaleX == RDiv(instanceFrame.width, masterFrame.width)
      scaleX == IF m.fixedWidth THEN R(1) ELSE instanceScaleX
  IN IF m.snapLeft /\ m.snapRight
     THEN LET rightLefMargin == RSub(masterFrame.width, curFrame.width)
              newWidth == RSub(instanceFrame.width, rightLefMargin)
          IN RDiv(newWidth, curFrame.width)
     ELSE IF m.snapRight
     THEN LET oldRight == RSub(RSub(masterFrame.width, curFrame.width), curFrame.x)
          IN IF ~m.fixedWidth
             THEN RDiv(RSub(RMul(masterFrame.width, instanceScaleX), oldRight),
                       RSub(masterFrame.width, oldRight))
             ELSE scaleX
     ELSE IF m.snapLeft
     THEN IF ~m.fixedWidth
          THEN RDiv(RSub(RMul(masterFrame.width, instanceScaleX), curFrame.x),
                    RSub(masterFrame.width, curFrame.x))
          ELSE scaleX
     ELSE scaleX

\* calcInstanceChildScale: scaleY
scaleYOf(m, instanceFrame, masterFrame, curFrame) ==
  LET instanceScaleY == RDiv(instanceFrame.height, masterFrame.height)
      scaleY == IF m.fixedHeight THEN R(1) ELSE instanceScaleY
  IN IF m.snapTop /\ m.snapBottom
     THEN LET verMargin == RSub(masterFrame.height, curFrame.height)
              newHeight == RSub(instanceFrame.height, verMargin)
          IN RDiv(newHeight, curFrame.height)
     ELSE IF m.snapBottom
     THEN LET oldBottom == RSub(RSub(masterFrame.height, curFrame.height), curFrame.y)
          IN IF ~m.fixedHeight
             THEN RDiv(RSub(RMul(masterFrame.height, instanceScaleY), oldBottom),
                       RSub(masterFrame.height, oldBottom))
             ELSE scaleY
     ELSE IF m.snapTop
     THEN IF ~m.fixedHeight
          THEN RDiv(RSub(RMul(masterFrame.height, instanceScaleY), curFrame.y),
                    RSub(masterFrame.height, curFrame.y))
          ELSE scaleY
     ELSE scaleY

\* calcInstanceChildScale(): <<>> (nothing) or <<[scaleX, scaleY]>>
calcInstanceChildScale(sf, n) ==
  LET p == parent[n] IN
  IF p = NoNode THEN <<>>
  ELSE IF ~isFrameScaledOf(sf, p) THEN <<>>
  ELSE <<[scaleX |-> scaleXOf(model[n], frameOf(sf, p), intrinsicFrame(p), frameOf(sf, n)),
          scaleY |-> scaleYOf(model[n], frameOf(sf, p), intrinsicFrame(p), frameOf(sf, n))]>>

\* a newX that places the trailing-snapped child with its old width
newXOfOldWidth(m, instanceFrame, masterFrame, newBounds, curFrame) ==
  IF m.snapLeft /\ m.snapRight THEN curFrame.x
  ELSE IF m.snapRight
  THEN LET oldRight == RSub(RSub(masterFrame.width, curFrame.width), curFrame.x)
       IN RSub(RSub(instanceFrame.width, curFrame.width), oldRight)
  ELSE IF m.snapLeft THEN curFrame.x
  ELSE LET oldCenter == RAdd(curFrame.x, RHalf(curFrame.width))
       IN RSub(RMul(RDiv(oldCenter, masterFrame.width), instanceFrame.width),
               RHalf(newBounds.width))

\* a newX that keeps the leading edge proportional instead of the center
newXOfProportionalEdge(m, instanceFrame, masterFrame, newBounds, curFrame) ==
  IF m.snapLeft /\ m.snapRight THEN curFrame.x
  ELSE IF m.snapRight
  THEN LET oldRight == RSub(RSub(masterFrame.width, curFrame.width), curFrame.x)
       IN RSub(RSub(instanceFrame.width, newBounds.width), oldRight)
  ELSE IF m.snapLeft THEN curFrame.x
  ELSE RMul(RDiv(curFrame.x, masterFrame.width), instanceFrame.width)

\* calcOffsetAfterScale: newX
newXOf(m, instanceFrame, masterFrame, newBounds, curFrame) ==
  IF m.snapLeft /\ m.snapRight THEN curFrame.x
  ELSE IF m.snapRight
  THEN LET oldRight == RSub(RSub(masterFrame.width, curFrame.width), curFrame.x)
       IN RSub(RSub(instanceFrame.width, newBounds.width), oldRight)
  ELSE IF m.snapLeft THEN curFrame.x
  ELSE LET oldCenter == RAdd(curFrame.x, RHalf(curFrame.width))
           oldCenterRatio == RDiv(oldCenter, masterFrame.width)
           newCenter == RMul(oldCenterRatio, instanceFrame.width)
       IN RSub(newCenter, RHalf(newBounds.width))

\* calcOffsetAfterScale: newY
newYOf(m, instanceFrame, masterFrame, newBounds, curFrame) ==
  IF m.snapTop /\ m.snapBottom THEN curFrame.y
  ELSE IF m.snapBottom
  THEN LET oldBottom == RSub(RSub(masterFrame.height, curFrame.height), curFrame.y)
       IN RSub(RSub(instanceFrame.height, newBounds.height), oldBottom)
  ELSE IF m.snapTop THEN curFrame.y
  ELSE LET oldCenter == RAdd(curFrame.y, RHalf(curFrame.height))
           oldCenterRatio == RDiv(oldCenter, masterFrame.height)
           newCenter == RMul(oldCenterRatio, instanceFrame.height)
       IN RSub(newCenter, RHalf(newBounds.height))

\* calcOffsetAfterScale(newBounds, oldBounds)
calcOffsetAfterScale(sf, n, newBounds, oldBounds) ==
  LET p == parent[n] IN
  [newX |-> newXOf(model[n], frameOf(sf, p), intrinsicFrame(p), newBounds, oldBounds),
   newY |-> newYOf(model[n], frameOf(sf, p), intrinsicFrame(p), newBounds, oldBounds)]

\* a commonLayoutSelf that keeps the scaledFrame it finds
keptScaledFrame(sf, n) == sf

\* this.scaledFrame = undefined
clearedScaledFrame(sf, n) == [sf EXCEPT ![n] = NoFrame]

\* commonLayoutSelf(): the scaledFrame assignment it leaves behind
commonLayoutSelf(sf, n) ==
  LET cleared == clearedScaledFrame(sf, n)
      info == calcInstanceChildScale(cleared, n)
  IN IF info = <<>> THEN cleared
     ELSE LET oldFrame == RectOf(model[n].frame)
              newFrame == Rect(R(0), R(0), RMul(info[1].scaleX, oldFrame.width),
                               RMul(info[1].scaleY, oldFrame.height))
              off == calcOffsetAfterScale(cleared, n, newFrame, oldFrame)
          IN [cleared EXCEPT ![n] = <<[newFrame EXCEPT !.x = off.newX, !.y = off.newY]>>]

\* layoutSelf() of SkyBaseLayerView: empty
layoutSelf(sf, n) == sf

\* the layer classes whose view overrides layoutSelf with commonLayoutSelf
ScalingClasses == {"group", "symbolInstance"}

\* this.layoutSelf() as the view's class defines it
layoutSelfOf(sf, n) ==
  IF model[n].class \in ScalingClasses THEN commonLayoutSelf(sf, n) ELSE layoutSelf(sf, n)

(***************************************************************************)
(* updateTransform() of the view.                                          *)
(***************************************************************************)
\* degreeToRadian, in quarter turns
degreeToRadian(deg) == deg \div 90

updateTransform(t, n) ==
  LET f == frame(n)
      scaleX == IF model[n].isFlippedHorizontal THEN -1 ELSE 1
      scaleY == IF model[n].isFlippedVertical THEN -1 ELSE 1
      radian == (-1) * scaleX * scaleY * degreeToRadian(model[n].rotation)
  IN updateLocalTransform(
       [t EXCEPT !.pivot = <<RHalf(f.width), RHalf(f.height)>>,
                 !.scale = <<scaleX, scaleY>>,
                 !.rotation = radian,
                 !.position = <<RAdd(f.x, RHalf(f.width)), RAdd(f.y, RHalf(f.height))>>])

(***************************************************************************)
(* layout()                                                                *)
(***************************************************************************)
\* the frame loop calls root.layout()
LayoutStart ==
  /\ Idle
  /\ callStack' = <<Frame("layout", Root, "self")>>
  /\ UNCHANGED <<treeVars, layoutVars, cacheVars, canvasVars, renderVars, editorVars>>

\* a layout() that recurses into the children right after layoutSelf
childrenAfterLayoutSelf == "children"

\* the statement of layout() that follows the layoutSelf block
afterLayoutSelf == "transform"

\* if (this._layoutDirty) { this.layoutSelf(); this._layoutDirty = false }
LayoutSelf ==
  /\ Running("layout", "self")
  /\ LET n == Top.self
     IN /\ scaledFrame' = IF layoutDirty[n] THEN layoutSelfOf(scaledFrame, n) ELSE scaledFrame
        /\ layoutDirty' = [layoutDirty EXCEPT ![n] = FALSE]
  /\ callStack' = SetTop([Top EXCEPT !.pc = afterLayoutSelf])
  /\ UNCHANGED <<treeVars, transformDirty, transform, layerUpdateId, cacheVars,
                 canvasVars, renderVars, editorVars>>

\* if (this._transformDirty) { this.updateTransform(); this._transformDirty = false }
LayoutTransform ==
  /\ Running("layout", "transform")
  /\ LET n == Top.self
     IN /\ transform' = IF transformDirty[n]
                        THEN [transform EXCEPT ![n] = updateTransform(@, n)]
                        ELSE transform
        /\ transformDirty' = [transformDirty EXCEPT ![n] = FALSE]
  /\ callStack' = SetTop([Top EXCEPT !.pc = "world"])
  /\ UNCHANGED <<treeVars, scaledFrame, layoutDirty, layerUpdateId, cacheVars,
                 canvasVars, renderVars, editorVars>>

\* this.parent?.transform ?? Transform.IDENTITY
parentWorldOf(n) ==
  IF parent[n] = NoNode THEN IDENTITY ELSE transform[parent[n]].worldTransform

\* this.transform.updateTransform(this.parent?.transform ?? Transform.IDENTITY)
LayoutWorld ==
  /\ Running("layout", "world")
  /\ LET n == Top.self
     IN transform' = [transform EXCEPT ![n] = updateWorldTransform(@, parentWorldOf(n))]
  /\ callStack' = SetTop([Top EXCEPT !.pc = "children"])
  /\ UNCHANGED <<treeVars, scaledFrame, layoutDirty, transformDirty, layerUpdateId,
                 cacheVars, canvasVars, renderVars, editorVars>>

\* a layoutChildren() that skips invisible children, as renderChildren does
laidOutVisibleChildren(n) == SelectSeq(children[n], visible)

\* the children layoutChildren() calls layout() on
laidOutChildren(n) == children[n]

\* layoutChildren(): childView.layout() for the next child, or return
LayoutChildren ==
  /\ Running("layout", "children")
  /\ LET n == Top.self
         cs == laidOutChildren(n)
     IN callStack' = IF Top.i <= Len(cs)
                     THEN Append(SetTop([Top EXCEPT !.i = @ + 1]),
                                 Frame("layout", cs[Top.i], "self"))
                     ELSE Pop
  /\ UNCHANGED <<treeVars, layoutVars, cacheVars, canvasVars, renderVars, editorVars>>

LayoutStep == LayoutStart \/ LayoutSelf \/ LayoutTransform \/ LayoutWorld \/ LayoutChildren

(***************************************************************************)
(* Hit testing: containsPoint and findView.                                *)
(***************************************************************************)
\* Matrix.applyInverse(pt): the point the matrix maps to pt
applyInverse(mat, pt) ==
  LET det == R(mat.a * mat.d - mat.b * mat.c)
      x == RSub(pt[1], mat.tx)
      y == RSub(pt[2], mat.ty)
  IN <<RDiv(RSub(RMul(R(mat.d), x), RMul(R(mat.c), y)), det),
       RDiv(RSub(RMul(R(mat.a), y), RMul(R(mat.b), x)), det)>>

\* containsPoint(pt)
containsPoint(n, pt) ==
  LET local == applyInverse(transform[n].worldTransform, pt) IN
  /\ RLess(R(0), local[1])
  /\ RLess(R(0), local[2])
  /\ RLess(local[1], frame(n).width)
  /\ RLess(local[2], frame(n).height)

\* no findView query is in progress
NoFind == [pt |-> <<R(0), R(0)>>, visited |-> <<>>, result |-> <<>>]

\* the points of the canvas a pointer event is hit-tested at
Points == {<<Norm(x, 2), Norm(y, 2)>> : x \in 0..(2 * MaxPoint), y \in 0..(2 * MaxPoint)}

RECURSIVE Reverse(_)
Reverse(q) == IF q = <<>> THEN <<>> ELSE Append(Reverse(Tail(q)), Head(q))

\* a loop that tests the children in paint order
testOrderForward(n) == children[n]

\* for (let i = this.children.length - 1; i >= 0; i--)
testOrder(n) == Reverse(children[n])

\* a loop that descends into every visible child, locked or not
descendsIfVisible(c) == visible(c)

\* if (child.interactive)
descends(c) == interactive(c)

\* a pointer event is hit-tested: root.findView(pt)
FindStart ==
  /\ Idle
  /\ \E pt \in Points : lastFound' = [pt |-> pt, visited |-> <<>>, result |-> <<>>]
  /\ callStack' = <<Frame("findView", Root, "enter")>>
  /\ UNCHANGED <<treeVars, layoutVars, cacheVars, canvasVars, renderVars, thrown, zoomVars>>

\* if (this.containsPoint(pt)) ... else return undefined
FindEnter ==
  /\ Running("findView", "enter")
  /\ LET n == Top.self IN
     /\ callStack' = SetTop([Top EXCEPT !.pc = IF containsPoint(n, lastFound.pt)
                                               THEN "loop" ELSE "ret"])
     /\ lastFound' = [lastFound EXCEPT !.visited = Append(@, n), !.result = <<>>]
  /\ UNCHANGED <<treeVars, layoutVars, cacheVars, canvasVars, renderVars, thrown, zoomVars>>

\* the loop head: child.findView(pt) for the next interactive child, or
\* return this
FindLoop ==
  /\ Running("findView", "loop")
  /\ LET n == Top.self
         cs == testOrder(n)
     IN IF Top.i > Len(cs)
        THEN /\ lastFound' = [lastFound EXCEPT !.result = <<n>>]
             /\ callStack' = SetTop([Top EXCEPT !.pc = "ret"])
        ELSE /\ callStack' = IF descends(cs[Top.i])
                             THEN Append(SetTop([Top EXCEPT !.pc = "back"]),
                                         Frame("findView", cs[Top.i], "enter"))
                             ELSE SetTop([Top EXCEPT !.i = @ + 1])
             /\ UNCHANGED lastFound
  /\ UNCHANGED <<treeVars, layoutVars, cacheVars, canvasVars, renderVars, thrown, zoomVars>>

\* if (view) return view
FindBack ==
  /\ Running("findView", "back")
  /\ callStack' = IF lastFound.result # <<>>
                  THEN SetTop([Top EXCEPT !.pc = "ret"])
                  ELSE SetTop([Top EXCEPT !.pc = "loop", !.i = @ + 1])
  /\ UNCHANGED <<treeVars, layoutVars, cacheVars, canvasVars, renderVars, editorVars>>

\* return from findView(); the outermost return hands the result to the
\* event handler that asked
FindReturn ==
  /\ Running("findView", "ret")
  /\ callStack' = Pop
  /\ lastFound' = IF Len(callStack) = 1 THEN NoFind ELSE lastFound
  /\ UNCHANGED <<treeVars, layoutVars, cacheVars, canvasVars, renderVars, thrown, zoomVars>>

FindStep == FindStart \/ FindEnter \/ FindLoop \/ FindBack \/ FindReturn

(***************************************************************************)
(* ZoomController (src/unnamed/part_000): wheel, drag and pinch handlers   *)
(* that report to an IZoomListener.  `calls` holds the listener calls of   *)
(* the handler that ran last.                                              *)
(***************************************************************************)
Point(x, y) == <<x, y>>

\* Point.minus
minus(p, q) == Point(p[1] - q[1], p[2] - q[2])

onScale(scaleMultiply, center) == [fn |-> "onScale", mult |-> scaleMultiply, pt |-> center]
onOffset(delta) == [fn |-> "onOffset", mult |-> R(1), pt |-> delta]

NoEvent == [type |-> "none"]

WheelDeltas == {s * d : s \in {-1, 1}, d \in {0, 1, 20, MaxWheelDelta}}

\* wheel events: zooming ones (ctrl or meta held) anywhere on the canvas, in
\* pixel or line mode, and panning ones
WheelEvents ==
  {e \in [type : {"wheel"}, ctrlKey : BOOLEAN, metaKey : BOOLEAN, shiftKey : {FALSE},
          deltaMode : {0, 1}, deltaX : {0}, deltaY : WheelDeltas,
          offsetX : 0..MaxPointer, offsetY : 0..MaxPointer] : e.ctrlKey \/ e.metaKey}
  \cup [type : {"wheel"}, ctrlKey : {FALSE}, metaKey : {FALSE}, shiftKey : BOOLEAN,
        deltaMode : {0}, deltaX : {0, 1}, deltaY : {-1, 1},
        offsetX : {0}, offsetY : {0}]

DragEvents ==
  [type : {"dragStart", "dragEnd"}] \cup [type : {"dragging"}, dx : 0..MaxDrag, dy : 0..MaxDrag]

GestureEvents ==
  [type : {"gesturestart"}, layerX : 0..MaxPointer, layerY : 0..MaxPointer]
    \cup [type : {"gesturechange"}, scale : 1..MaxPinch]
    \cup [type : {"gestureend"}]

\* the platforms `bowser` tells apart
Platforms == [safari : BOOLEAN, windows : BOOLEAN]
OtherPlatform == [safari |-> FALSE, windows |-> FALSE]

\* new ZoomController(el, service) on platform b
ZoomConstructed(b) ==
  /\ bowser = b
  /\ offset = Point(0, 0)
  /\ preDx = 0
  /\ preDy = 0
  /\ startPoint = Point(0, 0)
  /\ lastScale = R(1)
  /\ lastEvent = NoEvent
  /\ calls = <<>>
  /\ dragSum = Point(0, 0)

Max(a, b) == IF a > b THEN a ELSE b
Min(a, b) == IF a < b THEN a ELSE b

\* getScaleDelta(e)
getScaleDelta(e) ==
  IF e.deltaMode = 1 THEN e.deltaY * 15
  ELSE IF e.deltaY < 20 /\ e.deltaY > -20 THEN e.deltaY
  ELSE Max(Min(e.deltaY, 20), -20)

\* getOffsetDelta(e)
getOffsetDelta(e) ==
  IF bowser.windows /\ e.shiftKey THEN Point(e.deltaY, 0) ELSE Point(e.deltaX, e.deltaY)

\* (100 - 1.5 * delta) / 100
scaleMultiplyOf(delta) == RDiv(RSub(R(100), RMul(<<3, 2>>, R(delta))), R(100))

\* new Point(e.offsetX - this.offset.x, e.offsetY - this.offset.x)
wheelCenter(e) == Point(e.offsetX - offset[1], e.offsetY - offset[1])

\* setOffset(offset)
setOffset ==
  /\ \E x \in 0..MaxOffset, y \in 0..MaxOffset : offset' = Point(x, y)
  /\ lastEvent' = [type |-> "setOffset"]
  /\ calls' = <<>>
  /\ UNCHANGED <<preDx, preDy, startPoint, lastScale, dragSum, bowser>>
  /\ UNCHANGED <<treeVars, layoutVars, cacheVars, canvasVars, renderVars, callStack,
                 lastFound, thrown>>

\* onWheel(e)
onWheel ==
  /\ \E e \in WheelEvents :
       /\ lastEvent' = e
       /\ calls' = IF e.ctrlKey \/ e.metaKey
                   THEN <<onScale(scaleMultiplyOf(getScaleDelta(e)), wheelCenter(e))>>
                   ELSE <<onOffset(getOffsetDelta(e))>>
  /\ UNCHANGED <<offset, preDx, preDy, startPoint, lastScale, dragSum, bowser>>
  /\ UNCHANGED <<treeVars, layoutVars, cacheVars, canvasVars, renderVars, callStack,
                 lastFound, thrown>>

\* a drag offset that forgets the previous event
dragDeltaFromStart(e) == Point(0 - e.dx, 0 - e.dy)

\* new Point(preDx - dx, preDy - dy)
dragDelta(e) == Point(preDx - e.dx, preDy - e.dy)

\* the subscriber of fromDragEvent(el) in bindDragEvents
onDrag ==
  /\ \E e \in DragEvents :
       /\ lastEvent' = e
       /\ IF e.type = "dragStart"
          THEN /\ preDx' = 0
               /\ preDy' = 0
               /\ calls' = <<>>
               /\ dragSum' = Point(0, 0)
          ELSE IF e.type = "dragging"
          THEN LET delta == dragDelta(e) IN
               /\ calls' = <<onOffset(delta)>>
               /\ preDx' = e.dx
               /\ preDy' = e.dy
               /\ dragSum' = Point(dragSum[1] + delta[1], dragSum[2] + delta[2])
          ELSE /\ calls' = <<>>
               /\ UNCHANGED <<preDx, preDy, dragSum>>
  /\ UNCHANGED <<offset, startPoint, lastScale, bowser>>
  /\ UNCHANGED <<treeVars, layoutVars, cacheVars, canvasVars, renderVars, callStack,
                 lastFound, thrown>>

\* onGesture(e), bound in the constructor when bowser.safari
onGesture ==
  /\ bowser.safari
  /\ \E e \in GestureEvents :
       /\ lastEvent' = e
       /\ IF e.type = "gesturestart"
          THEN /\ startPoint' = Point(e.layerX, e.layerY)
               /\ lastScale' = R(1)
               /\ calls' = <<>>
          ELSE IF e.type = "gesturechange"
          THEN /\ calls' = <<onScale(RDiv(R(e.scale), lastScale), minus(startPoint, offset))>>
               /\ lastScale' = R(e.scale)
               /\ UNCHANGED startPoint
          ELSE /\ calls' = <<>>
               /\ UNCHANGED <<startPoint, lastScale>>
  /\ UNCHANGED <<offset, preDx, preDy, dragSum, bowser>>
  /\ UNCHANGED <<treeVars, layoutVars, cacheVars, canvasVars, renderVars, callStack,
                 lastFound, thrown>>

WheelStep == setOffset \/ onWheel

DragStep == setOffset \/ onDrag \/ onGesture

(***************************************************************************)
(* Construction: `new View(model)` builds the whole subtree with addChild. *)
(***************************************************************************)
\* the children array addChild builds: the views whose parent is n, in order
ChildrenOf(ns, par, n) ==
  LET RECURSIVE Build(_)
      Build(k) == IF k > Cardinality(ns) - 1 THEN <<>>
                  ELSE IF par[k] = n THEN <<k>> \o Build(k + 1) ELSE Build(k + 1)
  IN Build(1)

\* the fields of a freshly constructed view
ViewsConstructed(ns) ==
  /\ scaledFrame = [n \in ns |-> NoFrame]
  /\ layoutDirty = [n \in ns |-> TRUE]
  /\ transformDirty = [n \in ns |-> TRUE]
  /\ transform = [n \in ns |-> NewTransform]
  /\ layerUpdateId = [n \in ns |-> InitialLayerUpdateId]
  /\ layerPaint = [n \in ns |-> Undefined]
  /\ renderFrameMemo = [n \in ns |-> NoFrame]
  /\ lastRead = NoFrame
  /\ skStack = <<>>
  /\ skClip = {}
  /\ callStack = <<>>
  /\ clipAt = [n \in ns |-> NotRendered]
  /\ drawn = {}
  /\ lastFound = NoFind
  /\ thrown = <<>>

\* the views of a document and the controller of their canvas
Constructed(ns) == ViewsConstructed(ns) /\ ZoomConstructed(OtherPlatform)

\* half-transparent layer: buildLayerPaint yields a paint
HalfOpacity == [DefaultStyle EXCEPT !.opacity = 50]

\* a root with up to MaxSiblings shape children carrying any mask flags
InitMask ==
  /\ \E k \in 0..MaxSiblings : nodes = 0..k
  /\ parent = [n \in nodes |-> IF n = Root THEN NoNode ELSE Root]
  /\ children = [n \in nodes |-> ChildrenOf(nodes, parent, n)]
  /\ \E m \in [nodes -> [isVisible : BOOLEAN, hasClippingMask : BOOLEAN,
                          shouldBreakMaskChain : BOOLEAN]] :
       model = [n \in nodes |->
                 IF n = Root THEN DefaultModel
                 ELSE [DefaultModel EXCEPT !.class = "shapeLike",
                                           !.isVisible = m[n].isVisible,
                                           !.hasClippingMask = m[n].hasClippingMask,
                                           !.shouldBreakMaskChain = m[n].shouldBreakMaskChain]]
  /\ canQuickReject = [n \in nodes |-> TRUE]
  /\ requireLayerDropShadow = [n \in nodes |-> FALSE]
  /\ Constructed(nodes)

\* any tree of MaxRenderNodes views, any masks, paints and canQuickReject
InitRender ==
  /\ nodes = 0..(MaxRenderNodes - 1)
  /\ parent \in [nodes -> {NoNode} \cup nodes]
  /\ \A n \in nodes : IF n = Root THEN parent[n] = NoNode
                       ELSE parent[n] # NoNode /\ parent[n] < n
  /\ children = [n \in nodes |-> ChildrenOf(nodes, parent, n)]
  /\ \E m \in [nodes -> [hasClippingMask : BOOLEAN, style : {NoStyle, HalfOpacity}]] :
       model = [n \in nodes |->
                 [DefaultModel EXCEPT !.hasClippingMask = m[n].hasClippingMask /\ n # Root,
                                      !.style = m[n].style]]
  /\ canQuickReject \in [nodes -> BOOLEAN]
  /\ requireLayerDropShadow = [n \in nodes |-> FALSE]
  /\ Constructed(nodes)

\* the styles a layer can carry
Styles ==
  {NoStyle} \cup
  [present : {TRUE}, hasContextSettings : BOOLEAN, opacity : {100, 50},
   blendMode : {"Src", "Multiply"}, shadow : {"absent", "enabled"}, blur : BlurKinds,
   radius : {0}]

\* a root with one child of any style, on a layer type that does or does not
\* ask for the layer drop shadow
InitPaint ==
  /\ nodes = {0, 1}
  /\ parent = [n \in nodes |-> IF n = Root THEN NoNode ELSE Root]
  /\ children = [n \in nodes |-> ChildrenOf(nodes, parent, n)]
  /\ \E st \in Styles :
       model = [n \in nodes |-> IF n = Root THEN DefaultModel
                                ELSE [DefaultModel EXCEPT !.style = st]]
  /\ canQuickReject = [n \in nodes |-> TRUE]
  /\ requireLayerDropShadow \in [nodes -> BOOLEAN]
  /\ Constructed(nodes)

(***************************************************************************)
(* Inputs of the instance-scaling runs: a symbol instance whose frame is   *)
(* resized against its master, and one child with every combination of     *)
(* snap and fixed flags.                                                   *)
(***************************************************************************)
InstanceSizes == {MasterSize - 2, MasterSize, MasterSize + 2}

SnapFlags ==
  [snapLeft : BOOLEAN, snapRight : BOOLEAN, snapTop : BOOLEAN, snapBottom : BOOLEAN,
   fixedWidth : BOOLEAN, fixedHeight : BOOLEAN]

\* a symbol instance of the master, shown at width w and height h
InstanceModel(w, h) ==
  [DefaultModel EXCEPT !.class = "symbolInstance",
                       !.refFrame = [x |-> 0, y |-> 0, width |-> MasterSize, height |-> MasterSize],
                       !.frame = [x |-> 0, y |-> 0, width |-> w, height |-> h]]

\* a group at frame f with the flags fl
ChildModel(f, fl) ==
  [DefaultModel EXCEPT !.frame = f,
                       !.snapLeft = fl.snapLeft, !.snapRight = fl.snapRight,
                       !.snapTop = fl.snapTop, !.snapBottom = fl.snapBottom,
                       !.fixedWidth = fl.fixedWidth, !.fixedHeight = fl.fixedHeight]

InitScale ==
  /\ nodes = {0, 1}
  /\ parent = [n \in nodes |-> IF n = Root THEN NoNode ELSE Root]
  /\ children = [n \in nodes |-> ChildrenOf(nodes, parent, n)]
  /\ \E iw \in InstanceSizes, ih \in InstanceSizes, fl \in SnapFlags,
        f \in [x : 0..MaxOrigin, y : 0..MaxOrigin, width : 1..MaxSize, height : 1..MaxSize] :
       /\ f.x + f.width <= MasterSize
       /\ f.y + f.height <= MasterSize
       /\ model = [n \in nodes |-> IF n = Root THEN InstanceModel(iw, ih) ELSE ChildModel(f, fl)]
  /\ canQuickReject = [n \in nodes |-> TRUE]
  /\ requireLayerDropShadow = [n \in nodes |-> FALSE]
  /\ Constructed(nodes)

(***************************************************************************)
(* The editor between two passes: it resizes a symbol instance and         *)
(* invalidates the view it edited; any view can be marked for layout.      *)
(***************************************************************************)
LayoutWidths == {MasterSize + 2 * k : k \in 0..ResizeSteps}

\* the instance n is resized to width w; its layout and transform are invalidated
ResizeInstance ==
  /\ Idle
  /\ \E n \in nodes, w \in LayoutWidths :
       /\ model[n].class = "symbolInstance"
       /\ model[n].frame.width # w
       /\ model' = [model EXCEPT ![n].frame.width = w]
       /\ layoutDirty' = [layoutDirty EXCEPT ![n] = TRUE]
       /\ transformDirty' = [transformDirty EXCEPT ![n] = TRUE]
  /\ UNCHANGED <<nodes, parent, children, canQuickReject, requireLayerDropShadow,
                 scaledFrame, transform, layerUpdateId, cacheVars, canvasVars,
                 renderVars, callStack, editorVars>>

\* view._layoutDirty = true
MarkLayoutDirty ==
  /\ Idle
  /\ \E n \in nodes :
       /\ ~layoutDirty[n]
       /\ layoutDirty' = [layoutDirty EXCEPT ![n] = TRUE]
  /\ UNCHANGED <<treeVars, scaledFrame, transformDirty, transform, layerUpdateId,
                 cacheVars, canvasVars, renderVars, callStack, editorVars>>

EditStep == ResizeInstance \/ MarkLayoutDirty

\* the chain A -> B -> C: a symbol instance, a group in it, and in that a
\* group or a bitmap (whose view keeps the base layoutSelf)
InitLayout ==
  /\ nodes = {0, 1, 2}
  /\ parent = [n \in nodes |-> IF n = Root THEN NoNode ELSE n - 1]
  /\ children = [n \in nodes |-> ChildrenOf(nodes, parent, n)]
  /\ \E w \in LayoutWidths, rot \in {0, 90}, flip \in BOOLEAN, vis \in BOOLEAN,
        snapB \in BOOLEAN, snapC \in BOOLEAN, classC \in {"group", "bitmap"} :
       model = [n \in nodes |->
         IF n = Root THEN [InstanceModel(w, MasterSize) EXCEPT !.rotation = rot]
         ELSE IF n = 1
         THEN [DefaultModel EXCEPT !.frame = [x |-> 1, y |-> 1, width |-> 2, height |-> 2],
                                   !.snapLeft = snapB, !.snapRight = snapB,
                                   !.isFlippedHorizontal = flip]
         ELSE [DefaultModel EXCEPT !.class = classC,
                                   !.frame = [x |-> 0, y |-> 1, width |-> 1, height |-> 1],
                                   !.snapLeft = snapC, !.snapRight = snapC,
                                   !.isVisible = vis]]
  /\ canQuickReject = [n \in nodes |-> TRUE]
  /\ requireLayerDropShadow = [n \in nodes |-> FALSE]
  /\ Constructed(nodes)

\* a resizable instance with one child that stretches with it or not
InitCache ==
  /\ nodes = {0, 1}
  /\ parent = [n \in nodes |-> IF n = Root THEN NoNode ELSE Root]
  /\ children = [n \in nodes |-> ChildrenOf(nodes, parent, n)]
  /\ \E w \in LayoutWidths, snap \in BOOLEAN, rot \in {0, 90} :
       model = [n \in nodes |->
         IF n = Root THEN InstanceModel(w, MasterSize)
         ELSE [DefaultModel EXCEPT !.frame = [x |-> 1, y |-> 1, width |-> 2, height |-> 2],
                                   !.snapLeft = snap, !.snapRight = snap,
                                   !.rotation = rot]]
  /\ canQuickReject = [n \in nodes |-> TRUE]
  /\ requireLayerDropShadow = [n \in nodes |-> FALSE]
  /\ Constructed(nodes)

RenderStep ==
  \/ RenderStart \/ RenderEnter \/ applyLayerStyle \/ RenderDraw
  \/ RenderRestore \/ RenderRestoreLayer \/ RenderReturn
  \/ ChildrenLoop \/ ChildrenRenderChild \/ ChildrenMask \/ ChildrenEnd \/ ChildrenReturn

(***************************************************************************)
(* Mask chains (renderChildren).                                           *)
(***************************************************************************)
\* the masks among children[p][1..j-1] that no later sibling up to j ends
MasksInForce(p, j) ==
  {children[p][i] : i \in {i \in 1..(j - 1) :
      /\ isMask(children[p][i])
      /\ \A k \in (i + 1)..j :
           ~(isMask(children[p][k]) \/ shouldBreakMaskChain(children[p][k]))}}

\* the entries of skStack that renderChildren of p pushed for a mask
OpenMaskScopes(p) ==
  {i \in 1..Len(skStack) : skStack[i].kind = "mask" /\ skStack[i].owner = p}

\* C1: a rendered child at index j is inside the clip of the mask at index
\* i < j exactly when i is a mask and no sibling in i+1..j is a mask or breaks
\* the chain; a mask is clipped neither by itself nor by an earlier mask; every
\* visible child has been rendered when renderChildren ends; and at most one
\* mask clip scope of a child list is open at any time.
Thm_C1_MaskClipsUntilNextMaskOrBreak ==
  /\ \A p \in nodes : \A j \in 1..Len(children[p]) :
       LET c == children[p][j] IN
       /\ clipAt[c] # NotRendered =>
            /\ visible(c)
            /\ clipAt[c] = clipAt[p] \cup MasksInForce(p, j)
            /\ isMask(c) => clipAt[c] = clipAt[p]
       /\ (Running("renderChildren", "ret") /\ Top.self = p /\ visible(c))
            => clipAt[c] # NotRendered
  /\ \A p \in nodes : Cardinality(OpenMaskScopes(p)) <= 1

\* a mask clipped its plain successor and the chain-breaking third child,
\* itself not a mask, was rendered outside that clip
Wit_C1_ChainBroken ==
  /\ Idle /\ Len(children[Root]) >= 3
  /\ isMask(1) /\ ~isMask(2) /\ ~shouldBreakMaskChain(2)
  /\ ~isMask(3) /\ shouldBreakMaskChain(3)
  /\ clipAt[2] = {1} /\ clipAt[3] = {} /\ clipAt[1] = {}

(***************************************************************************)
(* Save-stack discipline of render().                                      *)
(***************************************************************************)
\* C2: render() never pops below the depth it was entered with and returns at
\* exactly that depth, also on the quick-reject path; its first restore
\* releases the scope it acquired last (the saveLayer when one was opened) and
\* the second restore releases its save; renderChildren is balanced as well.
Thm_C2_SaveStackBalanced ==
  /\ \A k \in 1..Len(callStack) : Len(skStack) >= callStack[k].base
  /\ Idle => Len(skStack) = 0
  /\ \A pc \in {"ret"} : \A fn \in {"render", "renderChildren"} :
       Running(fn, pc) => Len(skStack) = Top.base
  /\ Running("render", "restore") =>
       LET layer == hasLayerPaint(layerPaint[Top.self]) /\ Top.shouldRender
           e == skStack[Len(skStack)]
       IN /\ Len(skStack) = Top.base + (IF layer THEN 2 ELSE 1)
          /\ e.owner = Top.self
          /\ e.kind = IF layer THEN "saveLayer" ELSE "save"
  /\ Running("render", "restore2") =>
       LET layer == hasLayerPaint(layerPaint[Top.self]) /\ Top.shouldRender
       IN IF layer
          THEN /\ Len(skStack) = Top.base + 1
               /\ skStack[Len(skStack)].owner = Top.self
               /\ skStack[Len(skStack)].kind = "save"
          ELSE Len(skStack) = Top.base

\* a nested view whose layerPaint was built in an earlier pass is quick-rejected
\* in this pass, inside its parent's mask scope, and returns at its entry depth
Wit_C2_RejectedWithPaint ==
  /\ Running("render", "ret")
  /\ Top.self # Root
  /\ hasLayerPaint(layerPaint[Top.self])
  /\ ~Top.shouldRender
  /\ Top.base >= 2
  /\ Len(skStack) = Top.base
  /\ \E i \in 1..Len(skStack) : skStack[i].kind = "mask"

(***************************************************************************)
(* Instance scaling of a child against its resized parent.                 *)
(***************************************************************************)
\* a layout pass has finished and n went through layoutSelf in it
LaidOut(n) == Idle /\ ~layoutDirty[n] /\ n # Root /\ isFrameScaled(parent[n])

\* what calcInstanceChildScale returns for n inside commonLayoutSelf
ScaleOf(n) == calcInstanceChildScale([scaledFrame EXCEPT ![n] = NoFrame], n)[1]

InstW(n) == frame(parent[n]).width
InstH(n) == frame(parent[n]).height
MastW(n) == intrinsicFrame(parent[n]).width
MastH(n) == intrinsicFrame(parent[n]).height
Old(n) == RectOf(model[n].frame)
New(n) == scaledFrame[n][1]

\* the origin on the X axis follows the snap flags
OriginXFollowsSnap(n) ==
  LET m == model[n] IN
  IF m.snapLeft /\ m.snapRight THEN New(n).x = Old(n).x
  ELSE IF m.snapRight
  THEN RSub(InstW(n), RAdd(New(n).x, New(n).width))
         = RSub(MastW(n), RAdd(Old(n).x, Old(n).width))
  ELSE IF m.snapLeft THEN New(n).x = Old(n).x
  ELSE RAdd(New(n).x, RHalf(New(n).width))
         = RDiv(RMul(RAdd(Old(n).x, RHalf(Old(n).width)), InstW(n)), MastW(n))

\* the origin on the Y axis follows the snap flags
OriginYFollowsSnap(n) ==
  LET m == model[n] IN
  IF m.snapTop /\ m.snapBottom THEN New(n).y = Old(n).y
  ELSE IF m.snapBottom
  THEN RSub(InstH(n), RAdd(New(n).y, New(n).height))
         = RSub(MastH(n), RAdd(Old(n).y, Old(n).height))
  ELSE IF m.snapTop THEN New(n).y = Old(n).y
  ELSE RAdd(New(n).y, RHalf(New(n).height))
         = RDiv(RMul(RAdd(Old(n).y, RHalf(Old(n).height)), InstH(n)), MastH(n))

\* C3 as stated: inside a scaled parent a child with fixedWidth gets scaleX = 1
\* for every combination of snapLeft / snapRight, a child with fixedHeight gets
\* scaleY = 1 for every combination of snapTop / snapBottom.
Orig_C3_FixedAxisNeverScales ==
  \A n \in nodes : LaidOut(n) =>
    /\ model[n].fixedWidth => ScaleOf(n).scaleX = R(1)
    /\ model[n].fixedHeight => ScaleOf(n).scaleY = R(1)

\* C3 amended: a fixed axis gets scale 1 unless both edges of that axis are
\* snapped, in which case the child still stretches with both margins kept;
\* in every case the origin of the axis is computed from the snap flags.
Thm_C3_FixedAxisScalesOnlyWhenBothSnapped ==
  \A n \in nodes : LaidOut(n) =>
    LET m == model[n] IN
    /\ (m.fixedWidth /\ ~(m.snapLeft /\ m.snapRight)) =>
         ScaleOf(n).scaleX = R(1) /\ New(n).width = Old(n).width
    /\ (m.fixedWidth /\ m.snapLeft /\ m.snapRight) =>
         New(n).width = RSub(InstW(n), RSub(MastW(n), Old(n).width))
    /\ (m.fixedHeight /\ ~(m.snapTop /\ m.snapBottom)) =>
         ScaleOf(n).scaleY = R(1) /\ New(n).height = Old(n).height
    /\ (m.fixedHeight /\ m.snapTop /\ m.snapBottom) =>
         New(n).height = RSub(InstH(n), RSub(MastH(n), Old(n).height))
    /\ m.fixedWidth => OriginXFollowsSnap(n)
    /\ m.fixedHeight => OriginYFollowsSnap(n)

\* a fixed-width child snapped to the right of a widened instance keeps its
\* width and is moved
Wit_C3_FixedWidthMoved ==
  \E n \in nodes :
    /\ LaidOut(n) /\ model[n].fixedWidth /\ model[n].snapRight /\ ~model[n].snapLeft
    /\ InstW(n) # MastW(n)
    /\ New(n).width = Old(n).width
    /\ New(n).x # Old(n).x

\* C4: with both edges of an axis snapped the scaled size is
\* instance size - (master size - child size) and the origin is the intrinsic
\* one, so both margins are unchanged.
Thm_C4_BothSnapStretch ==
  \A n \in nodes : LaidOut(n) =>
    LET m == model[n] IN
    /\ (m.snapLeft /\ m.snapRight) =>
         /\ New(n).width = RSub(InstW(n), RSub(MastW(n), Old(n).width))
         /\ New(n).x = Old(n).x
         /\ RSub(InstW(n), RAdd(New(n).x, New(n).width))
              = RSub(MastW(n), RAdd(Old(n).x, Old(n).width))
    /\ (m.snapTop /\ m.snapBottom) =>
         /\ New(n).height = RSub(InstH(n), RSub(MastH(n), Old(n).height))
         /\ New(n).y = Old(n).y
         /\ RSub(InstH(n), RAdd(New(n).y, New(n).height))
              = RSub(MastH(n), RAdd(Old(n).y, Old(n).height))

\* a child snapped left and right inside an instance two units wider than its
\* master is two units wider and starts where it started
Wit_C4_Stretched ==
  \E n \in nodes :
    /\ LaidOut(n) /\ model[n].snapLeft /\ model[n].snapRight
    /\ InstW(n) = RAdd(MastW(n), R(2))
    /\ New(n).width = RAdd(Old(n).width, R(2))
    /\ New(n).x = Old(n).x /\ Old(n).x # R(0)

\* C5: with exactly one edge of an axis snapped the distance of that edge to
\* the same edge of the container is unchanged, fixed axis or not.
Thm_C5_SingleSnapKeepsAnchoredEdge ==
  \A n \in nodes : LaidOut(n) =>
    LET m == model[n] IN
    /\ (m.snapRight /\ ~m.snapLeft) =>
         RSub(InstW(n), RAdd(New(n).x, New(n).width))
           = RSub(MastW(n), RAdd(Old(n).x, Old(n).width))
    /\ (m.snapLeft /\ ~m.snapRight) => New(n).x = Old(n).x
    /\ (m.snapBottom /\ ~m.snapTop) =>
         RSub(InstH(n), RAdd(New(n).y, New(n).height))
           = RSub(MastH(n), RAdd(Old(n).y, Old(n).height))
    /\ (m.snapTop /\ ~m.snapBottom) => New(n).y = Old(n).y

\* a child snapped only to the right, not fixed, inside a widened instance:
\* it grew, it moved, and its right margin is the one it had
Wit_C5_TrailingKept ==
  \E n \in nodes :
    /\ LaidOut(n) /\ model[n].snapRight /\ ~model[n].snapLeft /\ ~model[n].fixedWidth
    /\ RLess(MastW(n), InstW(n))
    /\ RLess(Old(n).width, New(n).width)
    /\ New(n).x # Old(n).x
    /\ RSub(InstW(n), RAdd(New(n).x, New(n).width))
         = RSub(MastW(n), RAdd(Old(n).x, Old(n).width))

\* C6: with no edge of an axis snapped the new size is old size * instance
\* scale (the old size on a fixed axis) and the center keeps its proportional
\* position: newOrigin + newSize/2 = (oldOrigin + oldSize/2) * instance / master.
Thm_C6_NoSnapKeepsCenter ==
  \A n \in nodes : LaidOut(n) =>
    LET m == model[n] IN
    /\ (~m.snapLeft /\ ~m.snapRight) =>
         /\ New(n).width = IF m.fixedWidth THEN Old(n).width
                           ELSE RDiv(RMul(Old(n).width, InstW(n)), MastW(n))
         /\ RAdd(New(n).x, RHalf(New(n).width))
              = RDiv(RMul(RAdd(Old(n).x, RHalf(Old(n).width)), InstW(n)), MastW(n))
    /\ (~m.snapTop /\ ~m.snapBottom) =>
         /\ New(n).height = IF m.fixedHeight THEN Old(n).height
                            ELSE RDiv(RMul(Old(n).height, InstH(n)), MastH(n))
         /\ RAdd(New(n).y, RHalf(New(n).height))
              = RDiv(RMul(RAdd(Old(n).y, RHalf(Old(n).height)), InstH(n)), MastH(n))

\* an unsnapped fixed-width child in a widened instance keeps its width while
\* its center moves to the proportional position
Wit_C6_CenterMoved ==
  \E n \in nodes :
    /\ LaidOut(n) /\ ~model[n].snapLeft /\ ~model[n].snapRight /\ model[n].fixedWidth
    /\ RLess(MastW(n), InstW(n))
    /\ New(n).width = Old(n).width
    /\ New(n).x # Old(n).x
    /\ RAdd(New(n).x, RHalf(New(n).width))
         = RDiv(RMul(RAdd(Old(n).x, RHalf(Old(n).width)), InstW(n)), MastW(n))

(***************************************************************************)
(* Layout passes.                                                          *)
(***************************************************************************)
\* no pass is running and no view is marked: the last thing that happened to
\* the tree was a complete layout() pass from the root
AfterLayout ==
  Idle /\ \A n \in nodes : ~layoutDirty[n] /\ ~transformDirty[n]

\* the center of the frame n reports
FrameCenter(n) == <<RHalf(frame(n).width), RHalf(frame(n).height)>>

\* the product of the local transforms from the root down to n
RECURSIVE LocalProduct(_)
LocalProduct(n) ==
  IF parent[n] = NoNode THEN transform[n].localTransform
  ELSE Compose(LocalProduct(parent[n]), transform[n].localTransform)

\* C7 as stated: after any sequence of layout passes from the root the
\* scaledFrame of every view is what commonLayoutSelf computes from its
\* parent's current frame, never a value of an earlier pass.
Orig_C7_ScaledFrameFresh ==
  AfterLayout => \A n \in nodes : scaledFrame[n] = layoutSelfOf(scaledFrame, n)[n]

\* C8 as stated: every step that changes a view's scaledFrame or its local
\* transform increments its layerUpdateId, so that the renderFrame a read
\* returns is never a value memoized before the change.
Orig_C8_MutationBumpsGeneration ==
  [][/\ \A n \in nodes :
          (scaledFrame'[n] # scaledFrame[n]
             \/ transform'[n].localTransform # transform[n].localTransform)
          => layerUpdateId'[n] > layerUpdateId[n]
     /\ lastRead' # lastRead =>
          lastRead'[1].value = inflateFrame(lastRead'[1].view, onlySize(frame(lastRead'[1].view)))
    ]_vars

\* C12: when layoutSelf runs on a group or symbol instance that has no
\* parent, or whose parent's frame has the size of the parent's intrinsic
\* frame, calcInstanceChildScale yields nothing and the view is left without
\* scaledFrame, whatever it held before: its frame is the one written in its
\* model.
Thm_C12_NoScalingContextClearsScaledFrame ==
  [][\A n \in nodes :
       (/\ Running("layout", "self") /\ Top.self = n /\ layoutDirty[n]
        /\ model[n].class \in ScalingClasses
        /\ (parent[n] = NoNode \/ ~isFrameScaled(parent[n])))
       => /\ calcInstanceChildScale(clearedScaledFrame(scaledFrame, n), n) = <<>>
          /\ scaledFrame'[n] = NoFrame
          /\ frameOf(scaledFrame', n) = RectOf(model[n].frame)
    ]_vars

\* B has just been laid out under an instance shown at its master's size and
\* has no scaledFrame, while its child still carries the one computed when B
\* was stretched in an earlier pass
Wit_C12_ClearedAfterEarlierScale ==
  /\ Running("layout", "transform")
  /\ Top.self = 1
  /\ ~isFrameScaled(Root)
  /\ scaledFrame[1] = NoFrame
  /\ scaledFrame[2] # NoFrame

\* C9: whenever no pass is running, the world transform of every view,
\* visible or not, is its parent's world transform composed with its own local
\* transform (IDENTITY above the root), hence the product of the local
\* transforms on its path; this holds after passes in which only an ancestor
\* was invalidated.
Thm_C9_WorldIsParentWorldTimesLocal ==
  Idle => \A n \in nodes :
    /\ transform[n].worldTransform = Compose(parentWorldOf(n), transform[n].localTransform)
    /\ transform[n].worldTransform = LocalProduct(n)

\* the rotated instance was resized after the first pass (B still has the frame
\* of the old width) and re-laid out with B and C unmarked: the invisible C
\* carries the product of the three current local transforms
Wit_C9_RefreshedBelowResizedRoot ==
  /\ AfterLayout
  /\ model[Root].rotation = 90
  /\ ~visible(2)
  /\ scaledFrame[1] # layoutSelfOf(scaledFrame, 1)[1]
  /\ transform[Root].localTransform = updateTransform(transform[Root], Root).localTransform
  /\ transform[2].worldTransform =
       Compose(Compose(transform[Root].localTransform, transform[1].localTransform),
               transform[2].localTransform)
  /\ transform[2].worldTransform # transform[2].localTransform

\* C17: whenever layout() of a view is in progress below layout() of another,
\* the caller is the view's parent and has finished its own part of the pass:
\* it waits in layoutChildren with both flags cleared and its world transform
\* composed; and no step taken while a child is being laid out changes the
\* caller's scaledFrame or transform, so the child's layoutSelf reads the
\* frame its parent has in this pass.
Thm_C17_ParentLaidOutBeforeChildren ==
  [][/\ \A k \in 2..Len(callStack') :
          callStack'[k].fn = "layout" =>
            LET c == callStack'[k].self
                p == callStack'[k - 1].self
            IN /\ p = parent[c]
               /\ callStack'[k - 1].fn = "layout"
               /\ callStack'[k - 1].pc = "children"
               /\ ~layoutDirty'[p]
               /\ ~transformDirty'[p]
               /\ transform'[p].worldTransform
                    = Compose(IF parent[p] = NoNode THEN IDENTITY
                              ELSE transform'[parent[p]].worldTransform,
                              transform'[p].localTransform)
     /\ \A k \in 1..(Len(callStack) - 1) :
          callStack[k].fn = "layout" =>
            /\ scaledFrame'[callStack[k].self] = scaledFrame[callStack[k].self]
            /\ transform'[callStack[k].self] = transform[callStack[k].self]
    ]_vars

\* layoutSelf of C is about to run while B, stretched in this very pass, and
\* the instance wait in layoutChildren
Wit_C17_GrandchildUnderStretchedParent ==
  /\ Running("layout", "self")
  /\ Top.self = 2
  /\ Len(callStack) = 3
  /\ layoutDirty[2]
  /\ scaledFrame[1] # NoFrame
  /\ scaledFrame[1] = layoutSelfOf(scaledFrame, 1)[1]

\* C10 as stated: after a layout pass the pivot of every view is the center of
\* the frame it reports.
Orig_C10_PivotIsFrameCenter ==
  AfterLayout => \A n \in nodes : transform[n].pivot = FrameCenter(n)

(***************************************************************************)
(* Quick reject, failures and the layer paint.                             *)
(***************************************************************************)
\* C13 as stated: a view that is a mask cannot be quick-rejected, so once its
\* render() has passed the quickReject test it goes on to applyLayerStyle and
\* _render: when it reaches its restore, it has been drawn and its layerPaint
\* is resolved.
Orig_C13_MaskNeverQuickRejected ==
  \A k \in 1..Len(callStack) :
    LET f == callStack[k] IN
    (f.fn = "render" /\ isMask(f.self) /\ f.pc \in {"restore", "restore2", "ret"}) =>
      /\ ~canQuickReject[f.self]
      /\ f.shouldRender
      /\ f.self \in drawn
      /\ layerPaint[f.self].state # "undefined"

\* C14 as stated: when a render pass is abandoned because _render threw, every
\* scope opened on the save stack has been released.
Orig_C14_UnwoundOnAbort ==
  (thrown # <<>> /\ Idle) => Len(skStack) = 0

\* C15: a resolved layerPaint of a layer whose enabled blur is of a kind that
\* is not implemented is what buildLayerPaint yields without the blur: opacity
\* and blend mode when they differ from the defaults, the drop shadow filter
\* when the layer asks for it, and none (null) when nothing else modifies the
\* paint.
Thm_C15_UnimplementedBlurIgnored ==
  \A n \in nodes :
    LET st == model[n].style
        alphaSet == st.hasContextSettings /\ st.opacity # 100
        blendSet == st.hasContextSettings /\ st.blendMode # "Src"
        shadowSet == requireLayerDropShadow[n] /\ st.shadow = "enabled"
    IN (/\ layerPaint[n].state # "undefined"
        /\ st.present
        /\ st.blur \in {"Motion", "Zoom", "Background"})
       => layerPaint[n] =
            IF alphaSet \/ blendSet \/ shadowSet
            THEN Paint(IF alphaSet THEN st.opacity ELSE 100,
                       IF blendSet THEN st.blendMode ELSE "SrcOver",
                       IF shadowSet THEN "DropShadow" ELSE "none")
            ELSE Null

\* a half-transparent layer with a drop shadow and a zoom blur has been drawn
\* under a paint that carries the opacity and the shadow
Wit_C15_ZoomBlurWithShadow ==
  /\ model[1].style.blur = "Zoom"
  /\ 1 \in drawn
  /\ layerPaint[1] = Paint(50, "SrcOver", "DropShadow")

\* C16: when _render of a view is about to run, its layerPaint is resolved
\* (null or a paint) and the scope on top of the save stack is the view's
\* saveLayer exactly when it is a paint, its save otherwise; and a resolved
\* layerPaint is never undefined again, in this pass or a later one.
Thm_C16_LayerPaintResolvedBeforeDraw ==
  [][/\ Running("render", "draw")' =>
          LET n == Top.self'
              e == skStack'[Len(skStack')]
          IN /\ layerPaint'[n].state \in {"null", "paint"}
             /\ e.owner = n
             /\ e.kind = IF layerPaint'[n].state = "paint" THEN "saveLayer" ELSE "save"
             /\ Len(skStack') = Top.base' + (IF layerPaint'[n].state = "paint" THEN 2 ELSE 1)
     /\ \A n \in drawn' : layerPaint'[n].state # "undefined"
     /\ \A n \in nodes : layerPaint[n].state # "undefined" => layerPaint'[n] = layerPaint[n]
    ]_vars

\* in a pass after the one that resolved every paint, a view with a paint is
\* about to draw inside its saveLayer while a view without one waits its turn
Wit_C16_LaterPass ==
  /\ Running("render", "draw")
  /\ layerPaint[Top.self].state = "paint"
  /\ skStack[Len(skStack)].kind = "saveLayer"
  /\ \E n \in nodes : clipAt[n] = NotRendered /\ layerPaint[n].state = "null"

(***************************************************************************)
(* Hit testing.                                                            *)
(***************************************************************************)
\* v is c or lies in the subtree of c
RECURSIVE Within(_, _)
Within(v, c) == v = c \/ (parent[v] # NoNode /\ Within(parent[v], c))

\* the children of p that are interactive and contain the tested point
Hits(p) ==
  {j \in 1..Len(children[p]) :
     interactive(children[p][j]) /\ containsPoint(children[p][j], lastFound.pt)}

\* every view from v up to, but excluding, the receiver n is interactive and
\* contains the tested point
RECURSIVE PathMatches(_, _)
PathMatches(v, n) ==
  \/ v = n
  \/ /\ parent[v] # NoNode
     /\ interactive(v)
     /\ containsPoint(v, lastFound.pt)
     /\ PathMatches(parent[v], n)

\* the views findView was called on in this query
Visited == {lastFound.visited[k] : k \in 1..Len(lastFound.visited)}

\* C11: when findView of a view returns a view and some interactive children
\* contain the point, the result is the one of them with the highest index in
\* the children list, or lies in its subtree; the receiver itself is returned
\* only when no interactive child contains the point.
Thm_C11_TopmostSiblingWins ==
  (Running("findView", "ret") /\ lastFound.result # <<>>) =>
    LET p == Top.self
        v == lastFound.result[1]
    IN IF Hits(p) = {}
       THEN v = p
       ELSE Within(v, children[p][CHOOSE j \in Hits(p) : \A k \in Hits(p) : k <= j])

\* both children of the root are interactive and contain the point, and the
\* root's findView returned the later one
Wit_C11_TopmostOfTwo ==
  /\ Running("findView", "ret")
  /\ Top.self = Root
  /\ Hits(Root) = {1, 2}
  /\ lastFound.result = <<children[Root][2]>>

\* C18: findView of a view returns nothing exactly when the view does not
\* contain the point, and then none of its children was visited; otherwise
\* it returns a view that contains the point and is the receiver or a
\* descendant reached through interactive views that all contain the point.
Thm_C18_FindViewResult ==
  Running("findView", "ret") =>
    LET n == Top.self
        r == lastFound.result
    IN /\ (r = <<>>) <=> ~containsPoint(n, lastFound.pt)
       /\ r = <<>> => \A j \in 1..Len(children[n]) : children[n][j] \notin Visited
       /\ r # <<>> =>
            /\ Within(r[1], n)
            /\ containsPoint(r[1], lastFound.pt)
            /\ PathMatches(r[1], n)

\* the later child is locked and contains the point, as does its interactive
\* child; the root's findView returned the earlier child instead
Wit_C18_LockedSubtreeSkipped ==
  /\ Running("findView", "ret")
  /\ Top.self = Root
  /\ model[2].isLocked /\ visible(2) /\ containsPoint(2, lastFound.pt)
  /\ parent[3] = 2 /\ interactive(3) /\ containsPoint(3, lastFound.pt)
  /\ lastFound.result = <<1>>
  /\ 2 \notin Visited /\ 3 \notin Visited

(***************************************************************************)
(* ZoomController.                                                         *)
(***************************************************************************)
\* C19: a dragging event makes exactly one onOffset call, with the previous
\* cumulative (dx, dy) minus the current one, the previous one being (0, 0)
\* after dragStart; so the offsets delivered since dragStart always sum to
\* the negation of the latest cumulative (dx, dy), and dragStart and dragEnd
\* deliver nothing.
Thm_C19_DragDeltasTelescope ==
  [][/\ dragSum' = Point(0 - preDx', 0 - preDy')
     /\ lastEvent'.type = "dragStart" =>
          calls' = <<>> /\ preDx' = 0 /\ preDy' = 0 /\ dragSum' = Point(0, 0)
     /\ lastEvent'.type = "dragEnd" => calls' = <<>> /\ dragSum' = dragSum
     /\ lastEvent'.type = "dragging" =>
          /\ calls' = <<onOffset(Point(preDx - lastEvent'.dx, preDy - lastEvent'.dy))>>
          /\ dragSum' = Point(0 - lastEvent'.dx, 0 - lastEvent'.dy)
    ]_vars

\* a drag went through (1, 2) and then back to (2, 1): the second offset is
\* (-1, 1) and the two sum to (-2, -1)
Wit_C19_SecondDraggingEvent ==
  /\ lastEvent.type = "dragging"
  /\ lastEvent.dx = 2 /\ lastEvent.dy = 1
  /\ calls = <<onOffset(Point(-1, 1))>>
  /\ dragSum = Point(-2, -1)

\* C20 as stated: the center of a ctrl/meta wheel zoom is the pointer
\* position minus the configured offset, axis by axis.
Orig_C20_WheelCenterPerAxis ==
  (lastEvent.type = "wheel" /\ (lastEvent.ctrlKey \/ lastEvent.metaKey)) =>
    /\ Len(calls) = 1
    /\ calls[1].fn = "onScale"
    /\ calls[1].pt = Point(lastEvent.offsetX - offset[1], lastEvent.offsetY - offset[2])

\* C21 as stated: for a wheel event with ctrl or meta held, in any deltaMode,
\* the scale delta lies in [-20, 20], and the multiplier handed to onScale
\* lies in [0.7, 1.3].
Orig_C21_ScaleDeltaClamped ==
  (lastEvent.type = "wheel" /\ (lastEvent.ctrlKey \/ lastEvent.metaKey)) =>
    /\ getScaleDelta(lastEvent) >= -20
    /\ getScaleDelta(lastEvent) <= 20
    /\ Len(calls) = 1
    /\ calls[1].fn = "onScale"
    /\ ~RLess(calls[1].mult, <<7, 10>>)
    /\ ~RLess(<<13, 10>>, calls[1].mult)
    /\ RLess(R(0), calls[1].mult)

SpecMask == InitMask /\ [][RenderStep]_vars

SpecRender == InitRender /\ [][RenderStep]_vars

SpecPaint == InitPaint /\ [][RenderStep]_vars

SpecAbort == InitRender /\ [][RenderStep \/ RenderDrawThrows]_vars

SpecScale == InitScale /\ [][LayoutStep]_vars

SpecLayout == InitLayout /\ [][LayoutStep \/ EditStep]_vars

\* a canvas-sized root with two overlapping children and a grandchild under
\* either of them; any view below the root may be hidden or locked, and the
\* first child may be rotated
InitFind ==
  /\ nodes = 0..3
  /\ \E under \in {1, 2} :
       parent = [n \in nodes |-> IF n = Root THEN NoNode ELSE IF n = 3 THEN under ELSE Root]
  /\ children = [n \in nodes |-> ChildrenOf(nodes, parent, n)]
  /\ \E vis \in [1..3 -> BOOLEAN], locked \in [1..3 -> BOOLEAN], rot \in {0, 90} :
       model = [n \in nodes |->
         IF n = Root THEN DefaultModel
         ELSE [DefaultModel EXCEPT
                 !.frame = IF n = 1 THEN [x |-> 0, y |-> 0, width |-> 3, height |-> 2]
                           ELSE IF n = 2 THEN [x |-> 1, y |-> 1, width |-> 3, height |-> 3]
                           ELSE [x |-> 0, y |-> 0, width |-> 2, height |-> 2],
                 !.rotation = IF n = 1 THEN rot ELSE 0,
                 !.isVisible = vis[n], !.isLocked = locked[n]]]
  /\ canQuickReject = [n \in nodes |-> TRUE]
  /\ requireLayerDropShadow = [n \in nodes |-> FALSE]
  /\ Constructed(nodes)

\* a controller on any platform, over a canvas with a single view
InitZoom ==
  /\ nodes = {Root}
  /\ parent = [n \in nodes |-> NoNode]
  /\ children = [n \in nodes |-> <<>>]
  /\ model = [n \in nodes |-> DefaultModel]
  /\ canQuickReject = [n \in nodes |-> TRUE]
  /\ requireLayerDropShadow = [n \in nodes |-> FALSE]
  /\ ViewsConstructed(nodes)
  /\ \E b \in Platforms : ZoomConstructed(b)

SpecFind == InitFind /\ [][LayoutStep \/ FindStep]_vars

SpecWheel == InitZoom /\ [][WheelStep]_vars

SpecDrag == InitZoom /\ [][DragStep]_vars

SpecCache == InitCache /\ [][LayoutStep \/ EditStep \/ ReadRenderFrame]_vars

====
